---- MODULE Spec2Model ----
\* A model of the NexusMRP planning kernel (crates mrp-core and mrp-calc):
\* MrpCalculator::calculate with its work queue, netting, the five lot-sizing
\* policies, BOM explosion and pegging, over small input domains.
\*
\* Quantities are integers (rust_decimal values without a fractional part),
\* dates are day numbers whose weekday is (date % 7), 0 = Monday.
\* Option<T> is a sequence: << >> is None and <<x>> is Some(x).
\* A string "P:id" (a source_ref) is the tuple <<P, id>>; an item id "P" used
\* as a path element is the tuple <<P>>.
EXTENDS Integers, Sequences, FiniteSets, TLC

VARIABLES
    bom_graph,              \* MrpCalculator.bom_graph: set of edges <<parent, child, quantity>>
    configs,                \* MrpCalculator.configs: item -> Option<MrpConfig>
    calendar,               \* MrpCalculator.calendar: [working_days, holidays]
    demands,                \* calculate's argument: Seq of Demand
    supplies,               \* calculate's argument: Seq of Supply
    inventories,            \* calculate's argument: Seq of Inventory
    pegging_mode,           \* PeggingCalculator::perform's argument: "SingleLevel", "MultiLevel"
    pc,                     \* position in calculate: "start", "loop", "done"
    time_buckets,           \* Step 1 result
    components_to_process,  \* the work queue
    processed_components,   \* set of items already handled
    dependent_demands,      \* item -> Seq of Demand produced by explode_bom
    all_planned_orders,     \* Seq of PlannedOrder collected so far
    netting_inputs,         \* item -> Option<Seq of Demand> handed to calculate_component_mrp
    net_requirements,       \* item -> Seq of NetRequirement computed for the item
    result,                 \* what was returned: [status, planned_orders, pegging, warnings]
    next_uuid,              \* source of fresh ids (Uuid::new_v4)
    runs,                   \* number of calls of calculate started so far
    previous,               \* what the previous call of calculate returned, ids left out
    inventory,              \* an Inventory that allocate and deallocate are called on
    last_call               \* the last call of a WorkCalendar or Inventory method: its
                            \* arguments and what it returned

vars == <<bom_graph, configs, calendar, demands, supplies, inventories, pegging_mode, pc,
          time_buckets, components_to_process, processed_components,
          dependent_demands, all_planned_orders, netting_inputs,
          net_requirements, result, next_uuid, runs, previous, inventory, last_call>>

\* The objects the calendar and inventory methods are called on.
units == <<inventory, last_call>>

inputs == <<bom_graph, configs, calendar, demands, supplies, inventories, pegging_mode>>

----------------------------------------------------------------------------
\* Bounds of the model.

MaxQty == 2         \* largest quantity of an input demand
MaxLead == 1        \* largest lead_time_days
MaxRuns == 2        \* calls of calculate on the same calculator and inputs

Items == {"A", "B", "C"}

None == << >>
Some(x) == <<x>>
IsSome(o) == o # << >>
Unwrap(o) == o[1]

----------------------------------------------------------------------------
\* Sequence helpers.

RECURSIVE SumSeq(_)
SumSeq(s) == IF s = << >> THEN 0 ELSE Head(s) + SumSeq(Tail(s))

Range(s) == {s[i] : i \in DOMAIN s}

\* Vec::contains
Contains(s, x) == \E i \in DOMAIN s : s[i] = x

\* The orders in which a HashMap may yield the keys in S.
KeyOrders(S) ==
    {p \in [1..Cardinality(S) -> S] : \A i, j \in 1..Cardinality(S) : p[i] = p[j] => i = j}

\* Vec sorted ascending from a set of dates.
RECURSIVE SortedSeq(_)
SortedSeq(S) ==
    IF S = {} THEN << >>
    ELSE LET m == CHOOSE x \in S : \A y \in S : x <= y
         IN  <<m>> \o SortedSeq(S \ {m})

\* rust_decimal's % : the remainder has the sign of the dividend.
DecimalRem(a, b) == IF a >= 0 THEN a % b ELSE -((-a) % b)

\* Decimal::ceil of a / b for b > 0.
CeilDiv(a, b) == IF a >= 0 THEN (a + b - 1) \div b ELSE -((-a) \div b)

Min2(a, b) == IF a <= b THEN a ELSE b

----------------------------------------------------------------------------
\* WorkCalendar (mrp-core/src/calendar.rs).

is_working_day(cal, date) ==
    IF date \in cal.holidays THEN FALSE
    ELSE cal.working_days[(date % 7) + 1]

\* add_working_days testing the day it leaves instead of the day it reaches.
RECURSIVE add_working_days_counting_start(_, _, _)
add_working_days_counting_start(cal, start_date, days) ==
    IF days > 0
    THEN add_working_days_counting_start(cal, start_date + 1,
             IF is_working_day(cal, start_date) THEN days - 1 ELSE days)
    ELSE start_date

RECURSIVE add_working_days(_, _, _)
add_working_days(cal, start_date, days) ==
    IF days > 0
    THEN LET current == start_date + 1
         IN  add_working_days(cal, current,
                              IF is_working_day(cal, current) THEN days - 1 ELSE days)
    ELSE start_date

\* subtract_working_days counting calendar days instead of working days.
subtract_calendar_days(cal, start_date, days) == start_date - days

\* subtract_working_days testing the day it leaves instead of the day it reaches.
RECURSIVE subtract_working_days_from_start(_, _, _)
subtract_working_days_from_start(cal, start_date, days) ==
    IF days > 0
    THEN subtract_working_days_from_start(cal, start_date - 1,
             IF is_working_day(cal, start_date) THEN days - 1 ELSE days)
    ELSE start_date

RECURSIVE subtract_working_days(_, _, _)
subtract_working_days(cal, start_date, days) ==
    IF days > 0
    THEN LET current == start_date - 1
         IN  subtract_working_days(cal, current,
                                   IF is_working_day(cal, current) THEN days - 1 ELSE days)
    ELSE start_date

RECURSIVE working_days_between(_, _, _)
working_days_between(cal, start, end) ==
    IF start < end
    THEN LET current == start + 1
         IN  (IF is_working_day(cal, current) THEN 1 ELSE 0)
             + working_days_between(cal, current, end)
    ELSE 0

new_24_7 == [working_days |-> <<TRUE, TRUE, TRUE, TRUE, TRUE, TRUE, TRUE>>, holidays |-> {}]

WorkCalendar_new ==
    [working_days |-> <<TRUE, TRUE, TRUE, TRUE, TRUE, FALSE, FALSE>>, holidays |-> {}]

----------------------------------------------------------------------------
\* MrpConfig (mrp-core/src/config.rs).

MrpConfig_new(lead_time_days, procurement_type) ==
    [lead_time_days |-> lead_time_days,
     lot_sizing_rule |-> "LotForLot",
     fixed_lot_size |-> None,
     minimum_order_qty |-> None,
     maximum_order_qty |-> None,
     order_multiple |-> None,
     safety_stock |-> 0,
     planning_horizon_days |-> 90,
     procurement_type |-> procurement_type,
     mrp_enabled |-> TRUE,
     allow_negative_inventory |-> FALSE]

\* adjust_order_quantity capping at the maximum before rounding to the multiple.
adjust_order_quantity_cap_first(config, quantity) ==
    LET q1 == IF IsSome(config.minimum_order_qty)
                 /\ quantity < Unwrap(config.minimum_order_qty)
              THEN Unwrap(config.minimum_order_qty) ELSE quantity
        q2 == IF IsSome(config.maximum_order_qty)
                 /\ q1 > Unwrap(config.maximum_order_qty)
              THEN Unwrap(config.maximum_order_qty) ELSE q1
        q3 == IF IsSome(config.order_multiple) /\ Unwrap(config.order_multiple) > 0
              THEN LET multiple == Unwrap(config.order_multiple)
                       remainder == DecimalRem(q2, multiple)
                   IN  IF remainder > 0 THEN q2 - remainder + multiple ELSE q2
              ELSE q2
    IN  q3

adjust_order_quantity(config, quantity) ==
    LET q1 == IF IsSome(config.minimum_order_qty)
                 /\ quantity < Unwrap(config.minimum_order_qty)
              THEN Unwrap(config.minimum_order_qty) ELSE quantity
        q2 == IF IsSome(config.order_multiple) /\ Unwrap(config.order_multiple) > 0
              THEN LET multiple == Unwrap(config.order_multiple)
                       remainder == DecimalRem(q1, multiple)
                   IN  IF remainder > 0 THEN q1 - remainder + multiple ELSE q1
              ELSE q1
        q3 == IF IsSome(config.maximum_order_qty)
                 /\ q2 > Unwrap(config.maximum_order_qty)
              THEN Unwrap(config.maximum_order_qty) ELSE q2
    IN  q3

\* needs_mrp ignoring the mrp_enabled flag.
needs_mrp_always(config) == TRUE

needs_mrp(config) == config.mrp_enabled

----------------------------------------------------------------------------
\* NettingCalculator (mrp-calc/src/netting.rs).

NetRequirement(date, gross_req, scheduled_receipt, projected_on_hand, net_req) ==
    [date |-> date,
     gross_requirement |-> gross_req,
     scheduled_receipt |-> scheduled_receipt,
     projected_on_hand |-> projected_on_hand,
     net_requirement |-> net_req]

\* demands.iter().filter(|d| d.required_date == date).map(|d| d.quantity).sum()
GrossAt(ds, date) ==
    SumSeq([i \in DOMAIN ds |-> IF ds[i].required_date = date THEN ds[i].quantity ELSE 0])

\* supplies.iter().filter(|s| s.available_date == date).map(|s| s.quantity).sum()
ReceiptAt(ss, date) ==
    SumSeq([i \in DOMAIN ss |-> IF ss[i].available_date = date THEN ss[i].quantity ELSE 0])

\* The loop body netting against the safety stock whatever the flag.
NettingBucket_ignoring_flag(ds, ss, current_inventory, safety_stock, date, allow_negative_inventory) ==
    LET gross_req == GrossAt(ds, date)
        scheduled_receipt == ReceiptAt(ss, date)
        projected_on_hand == current_inventory + scheduled_receipt - gross_req
        net_req == IF projected_on_hand < safety_stock
                   THEN safety_stock - projected_on_hand ELSE 0
    IN  NetRequirement(date, gross_req, scheduled_receipt, projected_on_hand, net_req)

\* One pass of the loop body for the bucket `date`, entered with current_inventory.
NettingBucket(ds, ss, current_inventory, safety_stock, date, allow_negative_inventory) ==
    LET gross_req == GrossAt(ds, date)
        scheduled_receipt == ReceiptAt(ss, date)
        projected_on_hand == current_inventory + scheduled_receipt - gross_req
        net_req == IF allow_negative_inventory
                   THEN IF projected_on_hand < 0 THEN -projected_on_hand ELSE 0
                   ELSE IF projected_on_hand < safety_stock
                        THEN safety_stock - projected_on_hand ELSE 0
    IN  NetRequirement(date, gross_req, scheduled_receipt, projected_on_hand, net_req)

RECURSIVE NettingLoop(_, _, _, _, _, _)
NettingLoop(ds, ss, current_inventory, safety_stock, buckets, allow_negative_inventory) ==
    IF buckets = << >> THEN << >>
    ELSE LET rec == NettingBucket(ds, ss, current_inventory, safety_stock,
                                  Head(buckets), allow_negative_inventory)
         IN  <<rec>> \o NettingLoop(ds, ss, rec.projected_on_hand, safety_stock,
                                    Tail(buckets), allow_negative_inventory)

\* The loop carrying max(projected_on_hand, safety_stock) to the next bucket.
RECURSIVE NettingLoopLifted(_, _, _, _, _, _)
NettingLoopLifted(ds, ss, current_inventory, safety_stock, buckets, allow_negative_inventory) ==
    IF buckets = << >> THEN << >>
    ELSE LET rec == NettingBucket(ds, ss, current_inventory, safety_stock,
                                  Head(buckets), allow_negative_inventory)
         IN  <<rec>> \o NettingLoopLifted(ds, ss,
                                          IF rec.projected_on_hand < safety_stock
                                          THEN safety_stock ELSE rec.projected_on_hand,
                                          safety_stock, Tail(buckets),
                                          allow_negative_inventory)

\* calculate carrying the on-hand lifted to the safety stock.
NettingCalculate_lifted(ds, ss, initial_inventory, safety_stock, buckets, allow_negative_inventory) ==
    NettingLoopLifted(ds, ss, initial_inventory, safety_stock, buckets,
                      allow_negative_inventory)

NettingCalculate(ds, ss, initial_inventory, safety_stock, buckets, allow_negative_inventory) ==
    NettingLoop(ds, ss, initial_inventory, safety_stock, buckets, allow_negative_inventory)

----------------------------------------------------------------------------
\* LotSizingCalculator (mrp-calc/src/lot_sizing.rs).
\* The policies return the orders without their id; the id (Uuid::new_v4 in
\* PlannedOrder::new) is attached by WithIds.

period_days == 7

determine_order_type(procurement_type) ==
    CASE procurement_type = "Buy" -> "Purchase"
      [] procurement_type = "Make" -> "Production"
      [] procurement_type = "Transfer" -> "Transfer"

PlannedOrder_new(component_id, quantity, required_date, order_date, order_type) ==
    [component_id |-> component_id,
     quantity |-> quantity,
     required_date |-> required_date,
     order_date |-> order_date,
     order_type |-> order_type]

OrderFor(component_id, quantity, date, config, cal) ==
    PlannedOrder_new(component_id, quantity, date,
                     subtract_working_days(cal, date, config.lead_time_days),
                     determine_order_type(config.procurement_type))

\* lot_for_lot ordering the gross requirement instead of the net requirement.
RECURSIVE lot_for_lot_gross(_, _, _, _)
lot_for_lot_gross(component_id, reqs, config, cal) ==
    IF reqs = << >> THEN << >>
    ELSE LET req == Head(reqs)
             rest == lot_for_lot_gross(component_id, Tail(reqs), config, cal)
         IN  IF req.net_requirement > 0
             THEN <<OrderFor(component_id, adjust_order_quantity(config, req.gross_requirement),
                             req.date, config, cal)>> \o rest
             ELSE rest

RECURSIVE lot_for_lot(_, _, _, _)
lot_for_lot(component_id, reqs, config, cal) ==
    IF reqs = << >> THEN << >>
    ELSE LET req == Head(reqs)
             rest == lot_for_lot(component_id, Tail(reqs), config, cal)
         IN  IF req.net_requirement > 0
             THEN <<OrderFor(component_id, adjust_order_quantity(config, req.net_requirement),
                             req.date, config, cal)>> \o rest
             ELSE rest

\* The loop shared by fixed_order_quantity and economic_order_quantity, entered
\* at the head of reqs with the running remaining_inventory.
RECURSIVE FixedLotLoop(_, _, _, _, _, _)
FixedLotLoop(component_id, reqs, lot_size, remaining_inventory, config, cal) ==
    IF reqs = << >> THEN << >>
    ELSE LET req == Head(reqs)
             remaining == remaining_inventory - req.gross_requirement + req.scheduled_receipt
         IN  IF remaining < config.safety_stock
             THEN LET shortage == config.safety_stock - remaining
                      batches_needed == CeilDiv(shortage, lot_size)
                      order_quantity == lot_size * batches_needed
                      adjusted_quantity == adjust_order_quantity(config, order_quantity)
                  IN  <<OrderFor(component_id, adjusted_quantity, req.date, config, cal)>>
                      \o FixedLotLoop(component_id, Tail(reqs), lot_size,
                                      remaining + adjusted_quantity, config, cal)
             ELSE FixedLotLoop(component_id, Tail(reqs), lot_size, remaining, config, cal)

fixed_order_quantity(component_id, reqs, config, cal) ==
    FixedLotLoop(component_id, reqs, Unwrap(config.fixed_lot_size), 0, config, cal)

\* 10 * sqrt(total_requirement); the model covers the totals whose root is an
\* integer (CHOOSE is undefined for the others).
EoqSize(reqs, config) ==
    IF IsSome(config.fixed_lot_size) THEN Unwrap(config.fixed_lot_size)
    ELSE LET total_requirement == SumSeq([i \in DOMAIN reqs |-> reqs[i].net_requirement])
         IN  IF total_requirement > 0
             THEN 10 * (CHOOSE r \in 1..total_requirement : r * r = total_requirement)
             ELSE 100

economic_order_quantity(component_id, reqs, config, cal) ==
    FixedLotLoop(component_id, reqs, EoqSize(reqs, config), 0, config, cal)

\* PeriodEnd measuring the 7 days from the previous bucket instead of the
\* first bucket of the period.
RECURSIVE PeriodEnd_from_previous(_, _, _)
PeriodEnd_from_previous(reqs, start, idx) ==
    IF idx + 1 <= Len(reqs) /\ reqs[idx + 1].date - reqs[idx].date < period_days
    THEN PeriodEnd_from_previous(reqs, start, idx + 1)
    ELSE idx

\* The index of the last bucket of the period that starts at index start:
\* the inner for loop stops at the first bucket 7 or more days after the start.
RECURSIVE PeriodEnd(_, _, _)
PeriodEnd(reqs, start, idx) ==
    IF idx + 1 <= Len(reqs) /\ reqs[idx + 1].date - reqs[start].date < period_days
    THEN PeriodEnd(reqs, start, idx + 1)
    ELSE idx

RECURSIVE PeriodLoop(_, _, _, _, _)
PeriodLoop(component_id, reqs, period_start_index, config, cal) ==
    IF period_start_index > Len(reqs) THEN << >>
    ELSE LET period_start_date == reqs[period_start_index].date
             period_end_index == PeriodEnd(reqs, period_start_index, period_start_index)
             period_total ==
                 SumSeq([i \in 1..(period_end_index - period_start_index + 1) |->
                            reqs[period_start_index + i - 1].net_requirement])
             rest == PeriodLoop(component_id, reqs, period_end_index + 1, config, cal)
         IN  IF period_total > 0
             THEN <<OrderFor(component_id, adjust_order_quantity(config, period_total),
                             period_start_date, config, cal)>> \o rest
             ELSE rest

period_order_quantity(component_id, reqs, config, cal) ==
    PeriodLoop(component_id, reqs, 1, config, cal)

RECURSIVE MinMaxLoop(_, _, _, _, _, _, _)
MinMaxLoop(component_id, reqs, min_level, max_level, current_inventory, config, cal) ==
    IF reqs = << >> THEN << >>
    ELSE LET req == Head(reqs)
             current == current_inventory - req.gross_requirement + req.scheduled_receipt
         IN  IF current < min_level
             THEN LET order_quantity == max_level - current
                      adjusted_quantity == adjust_order_quantity(config, order_quantity)
                  IN  <<OrderFor(component_id, adjusted_quantity, req.date, config, cal)>>
                      \o MinMaxLoop(component_id, Tail(reqs), min_level, max_level,
                                    current + adjusted_quantity, config, cal)
             ELSE MinMaxLoop(component_id, Tail(reqs), min_level, max_level,
                             current, config, cal)

\* min_max taking min_level itself as the default max_level.
min_max_default_max_is_min(component_id, reqs, config, cal) ==
    LET min_level == IF IsSome(config.minimum_order_qty)
                     THEN Unwrap(config.minimum_order_qty) ELSE config.safety_stock
        max_level == IF IsSome(config.maximum_order_qty)
                     THEN Unwrap(config.maximum_order_qty) ELSE min_level
    IN  MinMaxLoop(component_id, reqs, min_level, max_level, 0, config, cal)

min_max(component_id, reqs, config, cal) ==
    LET min_level == IF IsSome(config.minimum_order_qty)
                     THEN Unwrap(config.minimum_order_qty) ELSE config.safety_stock
        max_level == IF IsSome(config.maximum_order_qty)
                     THEN Unwrap(config.maximum_order_qty) ELSE min_level * 2
    IN  MinMaxLoop(component_id, reqs, min_level, max_level, 0, config, cal)

\* apply with fixed_order_quantity failing only once a lot has to be ordered.
LotSizingApply_lazy_lot_check(component_id, reqs, config, cal) ==
    CASE config.lot_sizing_rule = "LotForLot" ->
            <<"Ok", lot_for_lot(component_id, reqs, config, cal)>>
      [] config.lot_sizing_rule = "FixedOrderQuantity" ->
            IF IsSome(config.fixed_lot_size)
            THEN <<"Ok", fixed_order_quantity(component_id, reqs, config, cal)>>
            ELSE IF \E i \in DOMAIN reqs : reqs[i].net_requirement > 0
                 THEN <<"MissingLotSize", << >> >>
                 ELSE <<"Ok", << >> >>
      [] config.lot_sizing_rule = "EconomicOrderQuantity" ->
            <<"Ok", economic_order_quantity(component_id, reqs, config, cal)>>
      [] config.lot_sizing_rule = "PeriodOrderQuantity" ->
            <<"Ok", period_order_quantity(component_id, reqs, config, cal)>>
      [] config.lot_sizing_rule = "MinMax" ->
            <<"Ok", min_max(component_id, reqs, config, cal)>>

\* LotSizingCalculator::apply: Ok(orders) as <<"Ok", orders>>, Err(e) as <<e, << >> >>.
LotSizingApply(component_id, reqs, config, cal) ==
    CASE config.lot_sizing_rule = "LotForLot" ->
            <<"Ok", lot_for_lot(component_id, reqs, config, cal)>>
      [] config.lot_sizing_rule = "FixedOrderQuantity" ->
            IF IsSome(config.fixed_lot_size)
            THEN <<"Ok", fixed_order_quantity(component_id, reqs, config, cal)>>
            ELSE <<"MissingLotSize", << >> >>
      [] config.lot_sizing_rule = "EconomicOrderQuantity" ->
            <<"Ok", economic_order_quantity(component_id, reqs, config, cal)>>
      [] config.lot_sizing_rule = "PeriodOrderQuantity" ->
            <<"Ok", period_order_quantity(component_id, reqs, config, cal)>>
      [] config.lot_sizing_rule = "MinMax" ->
            <<"Ok", min_max(component_id, reqs, config, cal)>>

\* Attach fresh ids base+1, base+2, ... in creation order.
WithIds(orders, base) ==
    [i \in DOMAIN orders |->
        [id |-> base + i,
         component_id |-> orders[i].component_id,
         quantity |-> orders[i].quantity,
         required_date |-> orders[i].required_date,
         order_date |-> orders[i].order_date,
         order_type |-> orders[i].order_type]]

----------------------------------------------------------------------------
\* Demand, Supply, Inventory (mrp-core/src/demand.rs, supply.rs, inventory.rs).

Demand_new(id, component_id, quantity, required_date, demand_type) ==
    [id |-> id,
     component_id |-> component_id,
     quantity |-> quantity,
     required_date |-> required_date,
     demand_type |-> demand_type,
     source_ref |-> None,
     priority |-> 5]

with_source_ref(demand, source_ref) == [demand EXCEPT !.source_ref = Some(source_ref)]

with_priority(demand, priority) == [demand EXCEPT !.priority = Min2(priority, 10)]

Supply_new(id, component_id, quantity, available_date) ==
    [id |-> id,
     component_id |-> component_id,
     quantity |-> quantity,
     available_date |-> available_date]

Inventory_new(component_id, on_hand_qty, safety_stock) ==
    [component_id |-> component_id,
     on_hand_qty |-> on_hand_qty,
     safety_stock |-> safety_stock,
     allocated_qty |-> 0,
     available_qty |-> on_hand_qty]

calculate_available(inv) ==
    [inv EXCEPT !.available_qty = inv.on_hand_qty - inv.allocated_qty]

\* allocate testing the quantity against on_hand_qty instead of available_qty.
allocate_against_on_hand(inv, quantity) ==
    IF quantity > inv.on_hand_qty THEN <<"Err", inv>>
    ELSE <<"Ok", calculate_available([inv EXCEPT !.allocated_qty = @ + quantity])>>

\* allocate: the Result and the Inventory after the call.
allocate(inv, quantity) ==
    IF quantity > inv.available_qty THEN <<"Err", inv>>
    ELSE <<"Ok", calculate_available([inv EXCEPT !.allocated_qty = @ + quantity])>>

\* deallocate: the Result and the Inventory after the call.
deallocate(inv, quantity) ==
    IF quantity > inv.allocated_qty THEN <<"Err", inv>>
    ELSE <<"Ok", calculate_available([inv EXCEPT !.allocated_qty = @ - quantity])>>

----------------------------------------------------------------------------
\* BucketingCalculator::create_time_buckets (mrp-calc/src/bucketing.rs).

\* create_time_buckets closing the axis with a bucket at the planning horizon.
create_time_buckets_to_horizon(ds, ss, planning_horizon_days) ==
    LET dates == {ds[i].required_date : i \in DOMAIN ds}
                 \cup {ss[i].available_date : i \in DOMAIN ss}
    IN  IF dates = {} THEN << >>
        ELSE SortedSeq(dates \cup {(CHOOSE x \in dates : \A y \in dates : x <= y)
                                   + planning_horizon_days})

create_time_buckets(ds, ss, planning_horizon_days) ==
    SortedSeq({ds[i].required_date : i \in DOMAIN ds}
              \cup {ss[i].available_date : i \in DOMAIN ss})

----------------------------------------------------------------------------
\* MrpCalculator (mrp-calc/src/calculator.rs).

\* grouped_demands.get(item).cloned().unwrap_or_default()
group_demands_by_component(ds, item) == SelectSeq(ds, LAMBDA d : d.component_id = item)

\* grouped_supplies.get(item).cloned().unwrap_or_default()
group_supplies_by_component(ss, item) == SelectSeq(ss, LAMBDA x : x.component_id = item)

\* grouped_demands.keys()
GroupedDemandKeys(ds) == {ds[i].component_id : i \in DOMAIN ds}

\* inventory_map.get(item).map(|inv| inv.available_qty).unwrap_or(ZERO);
\* collecting into the HashMap keeps the last Inventory of an item.
InitialInventory(invs, item) ==
    LET idx == {i \in DOMAIN invs : invs[i].component_id = item}
    IN  IF idx = {} THEN 0
        ELSE invs[CHOOSE i \in idx : \A j \in idx : j <= i].available_qty

\* get_max_planning_horizon: the largest planning_horizon_days of the configs,
\* 90 without configs.
get_max_planning_horizon(cfgs) ==
    LET horizons == {Unwrap(cfgs[i]).planning_horizon_days : i \in {j \in DOMAIN cfgs : IsSome(cfgs[j])}}
    IN  IF horizons = {} THEN 90
        ELSE CHOOSE h \in horizons : \A g \in horizons : g <= h

\* topological_sort returns grouped_demands.keys() as collected from the
\* HashMap: any order of the keys.
topological_sort(ds) == KeyOrders(GroupedDemandKeys(ds))

create_component_time_buckets(base_time_buckets, component_demands, component_supplies) ==
    SortedSeq(Range(base_time_buckets)
              \cup {component_demands[i].required_date : i \in DOMAIN component_demands}
              \cup {component_supplies[i].available_date : i \in DOMAIN component_supplies})

\* calculate_component_mrp skipping an item without config instead of failing.
calculate_component_mrp_skip_missing(component_id, component_demands, cfgs, cal, ss, invs, base_time_buckets) ==
    IF ~IsSome(cfgs[component_id]) \/ ~needs_mrp(Unwrap(cfgs[component_id]))
    THEN [status |-> "Ok", planned_orders |-> << >>, net_requirements |-> << >>]
    ELSE LET config == Unwrap(cfgs[component_id])
             component_supplies == group_supplies_by_component(ss, component_id)
             reqs == NettingCalculate(component_demands, component_supplies,
                                      InitialInventory(invs, component_id),
                                      config.safety_stock,
                                      create_component_time_buckets(
                                          base_time_buckets, component_demands,
                                          component_supplies),
                                      config.allow_negative_inventory)
             lots == LotSizingApply(component_id, reqs, config, cal)
         IN  [status |-> lots[1], planned_orders |-> lots[2], net_requirements |-> reqs]

\* calculate_component_mrp: [status, planned_orders (without ids), net_requirements].
calculate_component_mrp(component_id, component_demands, cfgs, cal, ss, invs, base_time_buckets) ==
    IF ~IsSome(cfgs[component_id])
    THEN [status |-> "ConfigNotFound", planned_orders |-> << >>, net_requirements |-> << >>]
    ELSE LET config == Unwrap(cfgs[component_id])
         IN  IF ~needs_mrp(config)
             THEN [status |-> "Ok", planned_orders |-> << >>, net_requirements |-> << >>]
             ELSE LET component_supplies == group_supplies_by_component(ss, component_id)
                      initial_inventory == InitialInventory(invs, component_id)
                      component_time_buckets ==
                          create_component_time_buckets(base_time_buckets, component_demands,
                                                        component_supplies)
                      reqs == NettingCalculate(component_demands, component_supplies,
                                               initial_inventory, config.safety_stock,
                                               component_time_buckets,
                                               config.allow_negative_inventory)
                      lots == LotSizingApply(component_id, reqs, config, cal)
                  IN  [status |-> lots[1], planned_orders |-> lots[2],
                       net_requirements |-> reqs]

\* bom_graph.arena().children(parent_node), in the arena's (fixed) order.
Children(bom, parent_id) ==
    LET edges == {e \in bom : e[1] = parent_id}
    IN  CHOOSE s \in KeyOrders(edges) : TRUE

\* The Dependent demand dated at the order's required_date instead of its order_date.
DependentDemand_at_required_date(parent_id, order, edge, id) ==
    with_priority(
        with_source_ref(
            Demand_new(id, edge[2], order.quantity * edge[3], order.required_date, "Dependent"),
            <<parent_id, order.id>>),
        5)

\* The Dependent demand explode_bom creates for one order and one edge.
DependentDemand(parent_id, order, edge, id) ==
    with_priority(
        with_source_ref(
            Demand_new(id, edge[2], order.quantity * edge[3], order.order_date, "Dependent"),
            <<parent_id, order.id>>),
        5)

\* explode_bom: child id -> the demands pushed for it, in creation order
\* (orders outermost, edges innermost). Demand ids are base+1, base+2, ...
explode_bom(bom, parent_id, planned_orders, base) ==
    LET children == Children(bom, parent_id)
        n == Len(children)
        created == [k \in 1..(Len(planned_orders) * n) |->
                       LET o == ((k - 1) \div n) + 1
                           c == ((k - 1) % n) + 1
                       IN  DependentDemand(parent_id, planned_orders[o], children[c], base + k)]
    IN  [child \in {created[k].component_id : k \in DOMAIN created} |->
            SelectSeq(created, LAMBDA d : d.component_id = child)]

----------------------------------------------------------------------------
\* PeggingCalculator (mrp-calc/src/pegging.rs).

PeggingRecord(demand_id, quantity, path) ==
    [demand_id |-> demand_id, quantity |-> quantity, path |-> path]

trace_parent_demand(parent_id) == <<parent_id>>

PeggingPath(component_id, demand, pegging_type) ==
    IF pegging_type = "SingleLevel" THEN << <<component_id>> >>
    ELSE IF demand.demand_type = "Dependent" /\ IsSome(demand.source_ref)
         THEN Append(trace_parent_demand(Unwrap(demand.source_ref)), <<component_id>>)
         ELSE << <<component_id>> >>

\* The for loop of trace_demand_source over matching_demands.
RECURSIVE PeggingWalk(_, _, _, _)
PeggingWalk(component_id, matching_demands, remaining_qty, pegging_type) ==
    IF matching_demands = << >> \/ remaining_qty <= 0 THEN << >>
    ELSE LET demand == Head(matching_demands)
             pegged_qty == Min2(demand.quantity, remaining_qty)
         IN  <<PeggingRecord(demand.id, pegged_qty,
                             PeggingPath(component_id, demand, pegging_type))>>
             \o PeggingWalk(component_id, Tail(matching_demands),
                            remaining_qty - pegged_qty, pegging_type)

trace_demand_source(component_id, quantity, date, ds, pegging_type) ==
    PeggingWalk(component_id,
                SelectSeq(ds, LAMBDA d : d.component_id = component_id /\ d.required_date = date),
                quantity, pegging_type)

\* perform: order id -> pegging records.
PeggingPerform(planned_orders, original_demands, pegging_type) ==
    [id \in {planned_orders[i].id : i \in DOMAIN planned_orders} |->
        LET order == planned_orders[CHOOSE i \in DOMAIN planned_orders :
                                        planned_orders[i].id = id]
        IN  trace_demand_source(order.component_id, order.quantity, order.required_date,
                                original_demands, pegging_type)]

\* The demands calculate hands to the pegging step.
PeggingDemands(ds, dep) == ds

----------------------------------------------------------------------------
\* Input domains.

\* BOM shapes: none, one edge, a chain, a fork, a diamond, a cycle.
BomShapes ==
    { {},
      {<<"A", "B", 2>>},
      {<<"A", "B", 1>>, <<"B", "C", 3>>},
      {<<"A", "B", 1>>, <<"A", "C", 2>>},
      {<<"A", "B", 1>>, <<"A", "C", 2>>, <<"B", "C", 1>>},
      {<<"A", "B", 1>>, <<"B", "A", 1>>} }

ProcurementOf(item) == IF item = "C" THEN "Buy" ELSE "Make"

\* At most one independent demand per item, listed in the order A, B, C.
DemandChoices(dates) == {None} \cup {<<q, d>> : q \in 1..MaxQty, d \in dates}

DemandsFrom(choice) ==
    LET picked == SelectSeq(<<"A", "B", "C">>, LAMBDA i : IsSome(choice[i]))
    IN  [k \in DOMAIN picked |->
            Demand_new(k, picked[k], choice[picked[k]][1], choice[picked[k]][2], "SalesOrder")]

\* The local state of calculate before its first step.
Entry ==
    /\ pc = "start"
    /\ pegging_mode = "MultiLevel"
    /\ time_buckets = << >>
    /\ components_to_process = << >>
    /\ processed_components = {}
    /\ dependent_demands = [i \in Items |-> << >>]
    /\ all_planned_orders = << >>
    /\ netting_inputs = [i \in Items |-> None]
    /\ net_requirements = [i \in Items |-> << >>]
    /\ result = None
    /\ next_uuid = Len(demands) + Len(supplies)
    /\ runs = 1
    /\ previous = None
    /\ inventory = None
    /\ last_call = None

\* The kernel family: every BOM shape, demands on any items, LotForLot.
Init ==
    /\ bom_graph \in BomShapes
    /\ calendar = new_24_7
    /\ \E lead \in [Items -> 0..MaxLead] :
          /\ lead["A"] >= lead["B"] /\ lead["B"] >= lead["C"]
          /\ configs = [i \in Items |-> Some(MrpConfig_new(lead[i], ProcurementOf(i)))]
    /\ \E choice \in [Items -> DemandChoices({16, 19})] :
          /\ Cardinality({i \in Items : IsSome(choice[i])}) \in {1, 2}
          /\ demands = DemandsFrom(choice)
    /\ supplies = << >>
    /\ inventories = << >>
    /\ Entry

\* The lot-sizing family: demands on item A only, every policy, quantity
\* constraints, safety stock, inventory and a scheduled receipt.

\* <<minimum_order_qty, maximum_order_qty, order_multiple>>
ConstraintProfiles ==
    { <<None, None, None>>,
      <<Some(3), None, None>>,
      <<None, Some(2), None>>,
      <<None, None, Some(2)>>,
      <<None, Some(4), Some(3)>>,
      <<Some(3), Some(2), None>>,
      <<Some(3), Some(4), Some(2)>> }

\* <<lot_sizing_rule, fixed_lot_size>>
PolicyProfiles ==
    { <<"LotForLot", None>>,
      <<"FixedOrderQuantity", Some(2)>>,
      <<"FixedOrderQuantity", Some(3)>>,
      <<"FixedOrderQuantity", None>>,
      <<"EconomicOrderQuantity", Some(2)>>,
      <<"EconomicOrderQuantity", Some(3)>>,
      <<"PeriodOrderQuantity", None>>,
      <<"MinMax", None>> }

\* <<safety_stock, allow_negative_inventory>>
SafetyProfiles == { <<0, FALSE>>, <<4, FALSE>>, <<4, TRUE>> }

\* <<on hand of A, supplies of A as <<quantity, available_date>> >>
StockProfiles ==
    { <<0, << >> >>,
      <<1, << >> >>,
      <<0, << <<1, 16>> >> >>,
      <<1, << <<4, 18>> >> >>,
      <<1, << <<1, 18>> >> >> }

\* planning_horizon_days: shorter than the span of the dates, and the default.
HorizonChoices == {2, 90}

LotConfig(policy, constraint, safety, horizon) ==
    [MrpConfig_new(1, "Buy") EXCEPT
        !.planning_horizon_days = horizon,
        !.lot_sizing_rule = policy[1],
        !.fixed_lot_size = policy[2],
        !.minimum_order_qty = constraint[1],
        !.maximum_order_qty = constraint[2],
        !.order_multiple = constraint[3],
        !.safety_stock = safety[1],
        !.allow_negative_inventory = safety[2]]

InitLot ==
    /\ bom_graph \in { {}, {<<"A", "B", 2>>} }
    /\ calendar = new_24_7
    /\ \E policy \in PolicyProfiles, constraint \in ConstraintProfiles,
          safety \in SafetyProfiles, horizon \in HorizonChoices :
          configs = [i \in Items |-> Some(LotConfig(policy, constraint, safety, horizon))]
    /\ \E q1 \in 1..MaxQty, q2 \in 1..MaxQty, d2 \in {16, 18, 23} :
          demands = <<Demand_new(1, "A", q1, 16, "SalesOrder"),
                      Demand_new(2, "A", q2, d2, "Forecast")>>
    /\ \E stock \in StockProfiles :
          /\ inventories = IF stock[1] = 0 THEN << >>
                           ELSE <<Inventory_new("A", stock[1], 0)>>
          /\ supplies = [k \in DOMAIN stock[2] |->
                            Supply_new(2 + k, "A", stock[2][k][1], stock[2][k][2])]
    /\ Entry

\* The calendar family: weekday masks and holidays, every policy, one demand on
\* A on each day of a week.
CalendarShapes ==
    { WorkCalendar_new,
      [working_days |-> <<TRUE, TRUE, TRUE, TRUE, TRUE, FALSE, FALSE>>, holidays |-> {15, 16}],
      [working_days |-> <<TRUE, FALSE, TRUE, FALSE, TRUE, FALSE, FALSE>>, holidays |-> {}],
      [working_days |-> <<FALSE, FALSE, FALSE, FALSE, FALSE, TRUE, TRUE>>, holidays |-> {}],
      [working_days |-> <<TRUE, TRUE, TRUE, TRUE, TRUE, TRUE, TRUE>>, holidays |-> {16, 17}] }

CalendarPolicies ==
    { <<"LotForLot", None>>,
      <<"FixedOrderQuantity", Some(2)>>,
      <<"EconomicOrderQuantity", Some(2)>>,
      <<"PeriodOrderQuantity", None>>,
      <<"MinMax", None>> }

InitCal ==
    /\ bom_graph \in { {}, {<<"A", "B", 2>>} }
    /\ calendar \in CalendarShapes
    /\ \E policy \in CalendarPolicies, lead \in 0..(MaxLead + 1) :
          configs = [i \in Items |->
                        Some([MrpConfig_new(lead, ProcurementOf(i)) EXCEPT
                                 !.lot_sizing_rule = policy[1],
                                 !.fixed_lot_size = policy[2],
                                 !.safety_stock = 1])]
    /\ \E q \in 1..MaxQty, d \in 14..20 :
          demands = <<Demand_new(1, "A", q, d, "SalesOrder")>>
    /\ supplies = << >>
    /\ inventories = << >>
    /\ Entry

\* The error family: items without config, with MRP disabled, with
\* FixedOrderQuantity and no fixed lot size, along BOM chains.
ConfigKinds == {"none", "plain", "disabled", "foq_nolot", "foq"}

ErrConfig(kind, item) ==
    LET plain == MrpConfig_new(0, ProcurementOf(item))
    IN  CASE kind = "none" -> None
          [] kind = "plain" -> Some(plain)
          [] kind = "disabled" -> Some([plain EXCEPT !.mrp_enabled = FALSE])
          [] kind = "foq_nolot" ->
                Some([plain EXCEPT !.lot_sizing_rule = "FixedOrderQuantity"])
          [] kind = "foq" ->
                Some([plain EXCEPT !.lot_sizing_rule = "FixedOrderQuantity",
                                   !.fixed_lot_size = Some(2)])

InitErr ==
    /\ bom_graph \in { {}, {<<"A", "B", 2>>}, {<<"A", "B", 1>>, <<"B", "C", 3>>} }
    /\ calendar = new_24_7
    /\ \E kind \in [Items -> ConfigKinds] :
          /\ kind["C"] \in {"none", "plain"}
          /\ configs = [i \in Items |-> ErrConfig(kind[i], i)]
    /\ \E q \in 1..MaxQty, other \in {"A", "B", "C"} :
          demands = DemandsFrom([i \in Items |->
                                    IF i = "A" THEN <<q, 16>>
                                    ELSE IF i = other THEN <<1, 16>> ELSE None])
    /\ supplies = << >>
    /\ inventories \in { << >>, <<Inventory_new("A", MaxQty, 0)>> }
    /\ Entry

\* The pegging family: PeggingCalculator::perform called directly, in both
\* modes, on one planned order of B and two demands of B on its date, each
\* independent or Dependent, without source_ref, with the source_ref explode_bom
\* writes ("A:<order id>") or with the parent item id as source_ref.
PegDemandKinds == {"independent", "dependent", "dependent_order_ref", "dependent_item_ref"}

PegDemand(kind, id, quantity) ==
    CASE kind = "independent" -> Demand_new(id, "B", quantity, 16, "SalesOrder")
      [] kind = "dependent" -> Demand_new(id, "B", quantity, 16, "Dependent")
      [] kind = "dependent_order_ref" ->
            DependentDemand("A", [id |-> 10 + id, quantity |-> quantity, order_date |-> 16],
                            <<"A", "B", 1>>, id)
      [] kind = "dependent_item_ref" ->
            with_source_ref(Demand_new(id, "B", quantity, 16, "Dependent"), <<"A">>)

InitPeg ==
    /\ bom_graph = {<<"A", "B", 1>>}
    /\ calendar = new_24_7
    /\ configs = [i \in Items |-> Some(MrpConfig_new(0, ProcurementOf(i)))]
    /\ \E k1 \in PegDemandKinds, k2 \in PegDemandKinds, q1 \in 1..MaxQty, q2 \in 1..MaxQty :
          demands = <<PegDemand(k1, 1, q1), PegDemand(k2, 2, q2)>>
    /\ supplies = << >>
    /\ inventories = << >>
    /\ pegging_mode \in {"SingleLevel", "MultiLevel"}
    /\ pc = "peg"
    /\ time_buckets = << >>
    /\ components_to_process = << >>
    /\ processed_components = {}
    /\ dependent_demands = [i \in Items |-> << >>]
    /\ \E q \in 1..(MaxQty + 1) :
          all_planned_orders = WithIds(<<PlannedOrder_new("B", q, 16, 16, "Production")>>, 2)
    /\ netting_inputs = [i \in Items |-> None]
    /\ net_requirements = [i \in Items |-> << >>]
    /\ result = None
    /\ next_uuid = 3
    /\ runs = 1
    /\ previous = None
    /\ inventory = None
    /\ last_call = None

\* The queue family: every BOM shape (the cycle included), demands on one or
\* two items on one date, LotForLot, lead 0.
InitLive ==
    /\ bom_graph \in BomShapes
    /\ calendar = new_24_7
    /\ configs = [i \in Items |-> Some(MrpConfig_new(0, ProcurementOf(i)))]
    /\ \E choice \in [Items -> DemandChoices({16})] :
          /\ Cardinality({i \in Items : IsSome(choice[i])}) \in {1, 2}
          /\ demands = DemandsFrom(choice)
    /\ supplies = << >>
    /\ inventories = << >>
    /\ Entry

\* The kernel at rest while methods of WorkCalendar or Inventory are called.
KernelIdle ==
    /\ bom_graph = {}
    /\ configs = [i \in Items |-> None]
    /\ demands = << >>
    /\ supplies = << >>
    /\ inventories = << >>
    /\ pegging_mode = "MultiLevel"
    /\ pc = "unit"
    /\ time_buckets = << >>
    /\ components_to_process = << >>
    /\ processed_components = {}
    /\ dependent_demands = [i \in Items |-> << >>]
    /\ all_planned_orders = << >>
    /\ netting_inputs = [i \in Items |-> None]
    /\ net_requirements = [i \in Items |-> << >>]
    /\ result = None
    /\ next_uuid = 0
    /\ runs = 1
    /\ previous = None

\* The working-day family: calendars with at least one working weekday, with
\* and without holidays, one of them with a single working weekday.
WdCalendars ==
    CalendarShapes
        \cup {new_24_7,
              [working_days |-> <<FALSE, FALSE, TRUE, FALSE, FALSE, FALSE, FALSE>>,
               holidays |-> {16}]}

\* Two weeks of dates.
WdDates == 14..27

InitWd ==
    /\ calendar \in WdCalendars
    /\ inventory = None
    /\ last_call = None
    /\ KernelIdle

\* The inventory family: an Inventory built by new with on hand 0 and more.
InitInv ==
    /\ calendar = new_24_7
    /\ \E on_hand_qty \in 0..(MaxQty + 2), safety_stock \in {0, 1} :
          inventory = Some(Inventory_new("A", on_hand_qty, safety_stock))
    /\ last_call = None
    /\ KernelIdle

----------------------------------------------------------------------------
\* calculate, Steps 1 to 3: time buckets, grouping, topological sort.
Prepare ==
    /\ pc = "start"
    /\ time_buckets' = create_time_buckets(demands, supplies, get_max_planning_horizon(configs))
    /\ components_to_process' \in topological_sort(demands)
    /\ pc' = "loop"
    /\ UNCHANGED <<inputs, units, processed_components, dependent_demands, all_planned_orders,
                   netting_inputs, net_requirements, result, next_uuid, runs, previous>>

\* The push of the children without the processed / queued test.
PushChildren_unguarded(queue, processed, key_order) == queue \o key_order

\* for (child_id, child_demand_list) in child_demands, visiting the keys in
\* the order key_order: push the unseen children, extend dependent_demands.
RECURSIVE PushChildren(_, _, _)
PushChildren(queue, processed, key_order) ==
    IF key_order = << >> THEN queue
    ELSE LET child_id == Head(key_order)
         IN  PushChildren(IF child_id \notin processed /\ ~Contains(queue, child_id)
                          THEN Append(queue, child_id) ELSE queue,
                          processed, Tail(key_order))

\* ExtendDependent inserting the new list in place of the accumulated one.
ExtendDependent_overwrite(dep, child_demands) ==
    [i \in Items |-> IF i \in DOMAIN child_demands THEN child_demands[i] ELSE dep[i]]

ExtendDependent(dep, child_demands) ==
    [i \in Items |-> IF i \in DOMAIN child_demands THEN dep[i] \o child_demands[i] ELSE dep[i]]

\* calculate, Step 4: one iteration of the while loop. The locals of the
\* iteration are bound once each, by \E over a one-element set.
ProcessComponent ==
    /\ pc = "loop"
    /\ components_to_process # << >>
    /\ \E component_id \in {Head(components_to_process)},
          queue \in {Tail(components_to_process)} :
       \E component_demands \in {group_demands_by_component(demands, component_id)
                                 \o dependent_demands[component_id]} :
       \E component_result \in
              {calculate_component_mrp(component_id, component_demands, configs, calendar,
                                       supplies, inventories, time_buckets)} :
       \E planned_orders \in {WithIds(component_result.planned_orders, next_uuid)} :
       \E child_demands \in {explode_bom(bom_graph, component_id, planned_orders,
                                         next_uuid + Len(planned_orders))} :
           IF component_id \in processed_components
           THEN /\ components_to_process' = queue
                /\ UNCHANGED <<pc, processed_components, dependent_demands,
                               all_planned_orders, netting_inputs, net_requirements,
                               result, next_uuid>>
           ELSE IF component_demands = << >>
           THEN /\ components_to_process' = queue
                /\ processed_components' = processed_components \cup {component_id}
                /\ UNCHANGED <<pc, dependent_demands, all_planned_orders, netting_inputs,
                               net_requirements, result, next_uuid>>
           ELSE IF component_result.status # "Ok"
           THEN /\ pc' = "done"
                /\ result' = Some([status |-> component_result.status,
                                   planned_orders |-> << >>,
                                   pegging |-> << >>,
                                   warnings |-> << >>])
                /\ components_to_process' = queue
                /\ netting_inputs' = [netting_inputs EXCEPT ![component_id] =
                                          Some(component_demands)]
                /\ UNCHANGED <<processed_components, dependent_demands, all_planned_orders,
                               net_requirements, next_uuid>>
           ELSE /\ \E key_order \in KeyOrders(DOMAIN child_demands) :
                      components_to_process' =
                          PushChildren(queue, processed_components, key_order)
                /\ all_planned_orders' = all_planned_orders \o planned_orders
                /\ dependent_demands' = ExtendDependent(dependent_demands, child_demands)
                /\ processed_components' = processed_components \cup {component_id}
                /\ netting_inputs' = [netting_inputs EXCEPT ![component_id] =
                                          Some(component_demands)]
                /\ net_requirements' = [net_requirements EXCEPT ![component_id] =
                                            component_result.net_requirements]
                /\ next_uuid' = next_uuid + Len(planned_orders)
                                + SumSeq([i \in DOMAIN planned_orders |->
                                             Len(Children(bom_graph, component_id))])
                /\ UNCHANGED <<pc, result>>
    /\ UNCHANGED <<inputs, units, time_buckets, runs, previous>>

\* MrpResult::empty().
MrpResult_empty == [planned_orders |-> << >>, pegging |-> << >>, warnings |-> << >>]

\* calculate, Step 5 and the return of Ok(result).
Pegging ==
    /\ pc = "loop"
    /\ components_to_process = << >>
    /\ result' = Some([status |-> "Ok",
                       planned_orders |-> all_planned_orders,
                       pegging |-> PeggingPerform(all_planned_orders,
                                                  PeggingDemands(demands, dependent_demands),
                                                  pegging_mode),
                       warnings |-> MrpResult_empty.warnings])
    /\ pc' = "done"
    /\ UNCHANGED <<inputs, units, time_buckets, components_to_process, processed_components,
                   dependent_demands, all_planned_orders, netting_inputs,
                   net_requirements, next_uuid, runs, previous>>

\* A planned order without its id.
Anonymous(order) ==
    [component_id |-> order.component_id,
     quantity |-> order.quantity,
     required_date |-> order.required_date,
     order_date |-> order.order_date,
     order_type |-> order.order_type]

\* What a caller compares between two calls: the status and the set of planned
\* orders up to their ids.
Outcome(res) ==
    [status |-> res.status,
     planned_orders |-> {Anonymous(res.planned_orders[i]) : i \in DOMAIN res.planned_orders}]

\* calculate is called again on the same calculator with the same arguments.
Rerun ==
    /\ pc = "done"
    /\ runs < MaxRuns
    /\ previous' = Some(Outcome(Unwrap(result)))
    /\ runs' = runs + 1
    /\ pc' = "start"
    /\ time_buckets' = << >>
    /\ components_to_process' = << >>
    /\ processed_components' = {}
    /\ dependent_demands' = [i \in Items |-> << >>]
    /\ all_planned_orders' = << >>
    /\ netting_inputs' = [i \in Items |-> None]
    /\ net_requirements' = [i \in Items |-> << >>]
    /\ result' = None
    /\ UNCHANGED <<inputs, units, next_uuid>>

\* PeggingCalculator::perform called on planned orders and demands.
PerformPegging ==
    /\ pc = "peg"
    /\ result' = Some([status |-> "Ok",
                       planned_orders |-> all_planned_orders,
                       pegging |-> PeggingPerform(all_planned_orders, demands, pegging_mode),
                       warnings |-> << >>])
    /\ pc' = "done"
    /\ UNCHANGED <<inputs, units, time_buckets, components_to_process, processed_components,
                   dependent_demands, all_planned_orders, netting_inputs,
                   net_requirements, next_uuid, runs, previous>>

\* WorkCalendar::add_working_days called on the calendar.
AddWorkingDays ==
    /\ pc = "unit"
    /\ \E start_date \in WdDates, days \in 0..(MaxLead + 2) :
          last_call' = [op |-> "add_working_days", start_date |-> start_date,
                        days |-> days,
                        value |-> add_working_days(calendar, start_date, days)]
    /\ UNCHANGED <<inputs, inventory, pc, time_buckets, components_to_process,
                   processed_components, dependent_demands, all_planned_orders,
                   netting_inputs, net_requirements, result, next_uuid, runs, previous>>

\* WorkCalendar::subtract_working_days called on the calendar.
SubtractWorkingDays ==
    /\ pc = "unit"
    /\ \E start_date \in WdDates, days \in 0..(MaxLead + 2) :
          last_call' = [op |-> "subtract_working_days", start_date |-> start_date,
                        days |-> days,
                        value |-> subtract_working_days(calendar, start_date, days)]
    /\ UNCHANGED <<inputs, inventory, pc, time_buckets, components_to_process,
                   processed_components, dependent_demands, all_planned_orders,
                   netting_inputs, net_requirements, result, next_uuid, runs, previous>>

\* WorkCalendar::working_days_between called on the calendar.
WorkingDaysBetween ==
    /\ pc = "unit"
    /\ \E start \in WdDates, end \in WdDates :
          last_call' = [op |-> "working_days_between", start_date |-> start,
                        days |-> end - start,
                        value |-> working_days_between(calendar, start, end)]
    /\ UNCHANGED <<inputs, inventory, pc, time_buckets, components_to_process,
                   processed_components, dependent_demands, all_planned_orders,
                   netting_inputs, net_requirements, result, next_uuid, runs, previous>>

\* Inventory::allocate called with a non-negative quantity.
Allocate ==
    /\ pc = "unit"
    /\ IsSome(inventory)
    /\ \E quantity \in 0..(MaxQty + 2) :
       \E outcome \in {allocate(Unwrap(inventory), quantity)} :
          /\ inventory' = Some(outcome[2])
          /\ last_call' = [op |-> "allocate", quantity |-> quantity,
                           value |-> outcome[1], before |-> Unwrap(inventory)]
    /\ UNCHANGED <<inputs, pc, time_buckets, components_to_process,
                   processed_components, dependent_demands, all_planned_orders,
                   netting_inputs, net_requirements, result, next_uuid, runs, previous>>

\* Inventory::deallocate called with a non-negative quantity.
Deallocate ==
    /\ pc = "unit"
    /\ IsSome(inventory)
    /\ \E quantity \in 0..(MaxQty + 2) :
       \E outcome \in {deallocate(Unwrap(inventory), quantity)} :
          /\ inventory' = Some(outcome[2])
          /\ last_call' = [op |-> "deallocate", quantity |-> quantity,
                           value |-> outcome[1], before |-> Unwrap(inventory)]
    /\ UNCHANGED <<inputs, pc, time_buckets, components_to_process,
                   processed_components, dependent_demands, all_planned_orders,
                   netting_inputs, net_requirements, result, next_uuid, runs, previous>>

Next == Prepare \/ ProcessComponent \/ Pegging \/ Rerun

NextPeg == PerformPegging

Spec == Init /\ [][Next]_vars

SpecLot == InitLot /\ [][Next]_vars

SpecCal == InitCal /\ [][Next]_vars

SpecErr == InitErr /\ [][Next]_vars

SpecPeg == InitPeg /\ [][NextPeg]_vars

NextWd == AddWorkingDays \/ SubtractWorkingDays \/ WorkingDaysBetween

SpecWd == InitWd /\ [][NextWd]_vars

NextInv == Allocate \/ Deallocate

SpecInv == InitInv /\ [][NextInv]_vars

\* calculate runs to its end once called: each of its steps is eventually taken.
SpecLive == InitLive /\ [][Next]_vars /\ WF_vars(Prepare \/ ProcessComponent \/ Pegging)

----------------------------------------------------------------------------
\* Vocabulary of the properties.

Done == pc = "done"

Returned == Unwrap(result)

DoneOk == Done /\ Returned.status = "Ok"

\* The items reachable from the items in S along BOM edges (S included).
RECURSIVE Reachable(_, _)
Reachable(bom, S) ==
    LET step == S \cup {e[2] : e \in {x \in bom : x[1] \in S}}
    IN  IF step = S THEN S ELSE Reachable(bom, step)

\* The items strictly below item.
Descendants(bom, item) == Reachable(bom, {e[2] : e \in {x \in bom : x[1] = item}})

HasCycle(bom, S) == \E i \in Reachable(bom, S) : i \in Descendants(bom, i)

Acyclic(bom) == ~HasCycle(bom, Items)

OrdersOf(item) ==
    SelectSeq(all_planned_orders, LAMBDA o : o.component_id = item)

TotalPlanned(item) ==
    LET os == OrdersOf(item) IN SumSeq([i \in DOMAIN os |-> os[i].quantity])

\* Every demand seen during the run: the independent ones and the dependent
\* ones accumulated for each item.
RECURSIVE ConcatAll(_, _)
ConcatAll(f, S) ==
    IF S = {} THEN << >>
    ELSE LET i == CHOOSE x \in S : TRUE IN f[i] \o ConcatAll(f, S \ {i})

AllDemands == demands \o ConcatAll(dependent_demands, Items)

----------------------------------------------------------------------------
\* C1. Dependent propagation: when calculate returns Ok on an acyclic BOM, for
\* every planned order O of an item P and every BOM edge (P -> C, k), the
\* demands that were handed to C's netting contain a Dependent demand of
\* quantity O.quantity * k dated O.order_date, in whatever order the queue
\* was drained.
C1_DependentPropagation ==
    (DoneOk /\ Acyclic(bom_graph)) =>
        \A i \in DOMAIN all_planned_orders : \A e \in bom_graph :
            e[1] = all_planned_orders[i].component_id =>
                /\ IsSome(netting_inputs[e[2]])
                /\ \E j \in DOMAIN Unwrap(netting_inputs[e[2]]) :
                      LET d == Unwrap(netting_inputs[e[2]])[j]
                      IN  /\ d.demand_type = "Dependent"
                          /\ d.quantity = all_planned_orders[i].quantity * e[3]
                          /\ d.required_date = all_planned_orders[i].order_date

\* The quantity of item needed for q units of root, multiplying quantity-per
\* along the BOM path from root (BOMs in which every item has one parent at most).
RECURSIVE PathQuantity(_, _, _, _)
PathQuantity(bom, root, item, q) ==
    IF item = root THEN q
    ELSE LET up == {e \in bom : e[2] = item}
         IN  IF up = {} THEN 0
             ELSE LET e == CHOOSE x \in up : TRUE
                  IN  PathQuantity(bom, root, e[1], q) * e[3]

IsTree(bom) ==
    /\ Acyclic(bom)
    /\ \A i \in Items : Cardinality({e \in bom : e[2] = i}) <= 1

\* The preconditions of C2: LotForLot and no quantity constraint on every item,
\* a 24/7 calendar, no inventory, no supply, one independent demand.
PlainExplosionInput ==
    /\ calendar = new_24_7
    /\ supplies = << >>
    /\ inventories = << >>
    /\ Len(demands) = 1
    /\ IsTree(bom_graph)
    /\ \A i \in Items :
          /\ IsSome(configs[i])
          /\ Unwrap(configs[i]).lot_sizing_rule = "LotForLot"
          /\ Unwrap(configs[i]).mrp_enabled
          /\ Unwrap(configs[i]).safety_stock = 0
          /\ Unwrap(configs[i]).minimum_order_qty = None
          /\ Unwrap(configs[i]).maximum_order_qty = None
          /\ Unwrap(configs[i]).order_multiple = None

\* C2. Multi-level explosion totals: under the preconditions above, the total
\* planned quantity of every item of the end item's BOM is the demand quantity
\* times the product of quantity-per along the path from the end item.
C2_ExplosionTotals ==
    (DoneOk /\ PlainExplosionInput) =>
        \A i \in Reachable(bom_graph, {demands[1].component_id}) :
            TotalPlanned(i) =
                PathQuantity(bom_graph, demands[1].component_id, i, demands[1].quantity)

\* C3. Determinism: a second call of calculate on the same inputs returns the
\* same status and the same set of planned orders up to their ids.
C3_Deterministic ==
    (Done /\ IsSome(previous)) => Outcome(Returned) = Unwrap(previous)

\* C4. Cycle refusal: when the BOM has a cycle among the items to plan,
\* calculate fails with TopologicalSortError and returns no planned order.
C4_CycleRefused ==
    (Done /\ HasCycle(bom_graph, GroupedDemandKeys(demands))) =>
        /\ Returned.status = "TopologicalSortError"
        /\ Returned.planned_orders = << >>

\* C5. Pegging covers the full demand set: every returned planned order of an
\* item P with required_date d, for which a demand on P dated d was seen during
\* the run (independent or dependent), has at least one pegging record.
C5_PeggingCoversAllDemands ==
    DoneOk =>
        \A i \in DOMAIN Returned.planned_orders :
            LET o == Returned.planned_orders[i]
            IN  (\E j \in DOMAIN AllDemands :
                    /\ AllDemands[j].component_id = o.component_id
                    /\ AllDemands[j].required_date = o.required_date)
                => Returned.pegging[o.id] # << >>

----------------------------------------------------------------------------
\* The configuration of an item that was planned.
ConfigOf(item) == Unwrap(configs[item])

\* Sum of the quantities of item's planned orders with required_date = date.
PlannedAt(item, date) ==
    LET os == SelectSeq(all_planned_orders,
                        LAMBDA o : o.component_id = item /\ o.required_date = date)
    IN  SumSeq([i \in DOMAIN os |-> os[i].quantity])

\* C6 as stated. Conservation: for every planned item P and every bucket date t
\* of its netting, the planned orders of P with required_date = t sum to at
\* least the net requirement N(t), under each lot-sizing policy.
C6_Conservation ==
    \A item \in Items : \A k \in DOMAIN net_requirements[item] :
        PlannedAt(item, net_requirements[item][k].date)
            >= net_requirements[item][k].net_requirement

\* C6 amended. Under LotForLot, for every planned item P and every bucket date
\* t of its netting, the planned orders of P with required_date = t sum to at
\* least N(t), or to exactly max_qty when max_qty is configured and caps the order.
C6_ConservationLotForLot ==
    \A item \in Items : \A k \in DOMAIN net_requirements[item] :
        ConfigOf(item).lot_sizing_rule = "LotForLot" =>
            LET planned == PlannedAt(item, net_requirements[item][k].date)
            IN  \/ planned >= net_requirements[item][k].net_requirement
                \/ /\ IsSome(ConfigOf(item).maximum_order_qty)
                   /\ planned = Unwrap(ConfigOf(item).maximum_order_qty)

\* A LotForLot item with a positive net requirement at some bucket that an
\* order on that date covers, raised above N(t) by the quantity constraints.
C6_Witness ==
    \E item \in Items : \E k \in DOMAIN net_requirements[item] :
        /\ ConfigOf(item).lot_sizing_rule = "LotForLot"
        /\ net_requirements[item][k].net_requirement > 0
        /\ PlannedAt(item, net_requirements[item][k].date)
              > net_requirements[item][k].net_requirement

MaxAllows(config, x) ==
    IsSome(config.maximum_order_qty) => x <= Unwrap(config.maximum_order_qty)

MatchingDemands(order, ds) ==
    SelectSeq(ds, LAMBDA d : d.component_id = order.component_id
                             /\ d.required_date = order.required_date)

DemandById(ds, id) == ds[CHOOSE j \in DOMAIN ds : ds[j].id = id]

\* C10. Pegging bound: for every returned planned order O, the pegged
\* quantities sum to min(O.quantity, total quantity of the demands with O's item
\* and required_date) and never exceed O.quantity; each record's quantity is at
\* most its demand's quantity; an order with no demand on its date has no record.
C10_PeggingBound ==
    DoneOk =>
        \A i \in DOMAIN Returned.planned_orders :
            LET o == Returned.planned_orders[i]
                records == Returned.pegging[o.id]
                matching == MatchingDemands(o, demands)
                pegged == SumSeq([k \in DOMAIN records |-> records[k].quantity])
                total == SumSeq([k \in DOMAIN matching |-> matching[k].quantity])
            IN  /\ pegged = Min2(o.quantity, total)
                /\ pegged <= o.quantity
                /\ \A k \in DOMAIN records :
                      records[k].quantity <= DemandById(demands, records[k].demand_id).quantity
                /\ matching = << >> => records = << >>

\* The first working day after date.
NextWorkingDay(cal, date) ==
    CHOOSE x \in (date + 1)..(date + 14) :
        /\ is_working_day(cal, x)
        /\ \A y \in (date + 1)..(x - 1) : ~is_working_day(cal, y)

LeadOf(order) == ConfigOf(order.component_id).lead_time_days

\* C8. Calendar round-trip: for every planned order, weekday mask, holiday set
\* and lead time, add_working_days(order_date, lead_time_days) equals
\* required_date, or the next working day after required_date when
\* required_date is itself non-working.
C8_CalendarRoundTrip ==
    \A i \in DOMAIN all_planned_orders :
        LET o == all_planned_orders[i]
            back == add_working_days(calendar, o.order_date, LeadOf(o))
        IN  \/ back = o.required_date
            \/ /\ ~is_working_day(calendar, o.required_date)
               /\ back = NextWorkingDay(calendar, o.required_date)

\* An order with a positive lead time whose required_date is non-working, so
\* that adding the lead time back lands on the next working day.
C8_Witness ==
    \E i \in DOMAIN all_planned_orders :
        LET o == all_planned_orders[i]
        IN  /\ LeadOf(o) > 0
            /\ ~is_working_day(calendar, o.required_date)
            /\ add_working_days(calendar, o.order_date, LeadOf(o))
                  = NextWorkingDay(calendar, o.required_date)

\* C9 as stated. Every planned order's order_date is a working day of the
\* calendar, for every lead_time_days >= 0 and every required_date.
C9_OrderDateWorking ==
    \A i \in DOMAIN all_planned_orders :
        is_working_day(calendar, all_planned_orders[i].order_date)

\* C9 amended. Every planned order's order_date is a working day of the calendar
\* when lead_time_days >= 1; with lead_time_days = 0 the order_date is the
\* required_date itself, working or not.
C9_OrderDateWorkingPositiveLead ==
    \A i \in DOMAIN all_planned_orders :
        LET o == all_planned_orders[i]
        IN  IF LeadOf(o) >= 1
            THEN is_working_day(calendar, o.order_date)
            ELSE o.order_date = o.required_date

\* An order with a positive lead time and a non-working required_date whose
\* order_date skipped non-working days to land on a working day.
C9_Witness ==
    \E i \in DOMAIN all_planned_orders :
        LET o == all_planned_orders[i]
        IN  /\ LeadOf(o) >= 1
            /\ ~is_working_day(calendar, o.required_date)
            /\ o.order_date < o.required_date - LeadOf(o)
            /\ is_working_day(calendar, o.order_date)

----------------------------------------------------------------------------
\* C11. ConfigNotFound is fatal: as soon as an item with at least one demand
\* and no config is handed to calculate_component_mrp, calculate has returned
\* ConfigNotFound with no planned orders and no pegging, whatever was planned
\* for the items processed earlier.
C11_ConfigNotFoundFatal ==
    \A item \in Items :
        (IsSome(netting_inputs[item]) /\ ~IsSome(configs[item])) =>
            /\ Done
            /\ Returned.status = "ConfigNotFound"
            /\ Returned.planned_orders = << >>
            /\ Returned.pegging = << >>

\* A run that planned orders for an earlier item and then returned
\* ConfigNotFound for an item with demand and no config.
C11_Witness ==
    /\ Done
    /\ Returned.status = "ConfigNotFound"
    /\ all_planned_orders # << >>
    /\ \E item \in Items : IsSome(netting_inputs[item]) /\ ~IsSome(configs[item])

\* The item is MRP-enabled with FixedOrderQuantity and no fixed lot size.
LacksLotSize(item) ==
    /\ IsSome(configs[item])
    /\ ConfigOf(item).mrp_enabled
    /\ ConfigOf(item).lot_sizing_rule = "FixedOrderQuantity"
    /\ ~IsSome(ConfigOf(item).fixed_lot_size)

\* C12. MissingLotSize: as soon as an item with demand whose rule is
\* FixedOrderQuantity and whose fixed lot size is not set is lot sized,
\* whatever its net requirements, calculate has returned MissingLotSize with
\* no planned orders and no pegging.
C12_MissingLotSize ==
    \A item \in Items :
        (IsSome(netting_inputs[item]) /\ LacksLotSize(item)) =>
            /\ Done
            /\ Returned.status = "MissingLotSize"
            /\ Returned.planned_orders = << >>
            /\ Returned.pegging = << >>

\* MissingLotSize returned for item A although its on-hand inventory covers
\* its whole demand (all net requirements are zero).
C12_Witness ==
    /\ Done
    /\ Returned.status = "MissingLotSize"
    /\ IsSome(netting_inputs["A"])
    /\ LacksLotSize("A")
    /\ InitialInventory(inventories, "A") >= GrossAt(Unwrap(netting_inputs["A"]), 16)

\* The item has a config with mrp_enabled = false.
Disabled(item) == IsSome(configs[item]) /\ ~ConfigOf(item).mrp_enabled

\* C13. Planned orders exist only for MRP-enabled items: no planned order
\* belongs to an item whose config has mrp_enabled = false, and no dependent
\* demand has such an item as the parent in its source_ref.
C13_OnlyEnabledItemsPlanned ==
    /\ \A i \in DOMAIN all_planned_orders : ~Disabled(all_planned_orders[i].component_id)
    /\ \A item \in Items : \A child \in Items : \A k \in DOMAIN dependent_demands[child] :
          Disabled(item) => Unwrap(dependent_demands[child][k].source_ref)[1] # item

\* A finished run in which a disabled item with demand and a BOM child was
\* processed and its child received no dependent demand.
C13_Witness ==
    /\ DoneOk
    /\ \E e \in bom_graph :
          /\ Disabled(e[1])
          /\ IsSome(netting_inputs[e[1]])
          /\ e[1] \in processed_components
          /\ dependent_demands[e[2]] = << >>

----------------------------------------------------------------------------
\* The net requirement netting computed for item at the bucket date (0 when
\* the item has no such bucket).
NetAt(item, date) ==
    LET recs == SelectSeq(net_requirements[item], LAMBDA r : r.date = date)
    IN  IF recs = << >> THEN 0 ELSE recs[1].net_requirement

\* The returned result carries a warning for item.
Warned(item) ==
    \E k \in DOMAIN Returned.warnings : Returned.warnings[k].component_id = item

\* The items that are nodes of the BOM graph.
BomNodes(bom) == {e[1] : e \in bom} \cup {e[2] : e \in bom}

\* C14. Warnings for non-fatal conditions: when calculate returns Ok, an order
\* capped by max_qty below the net requirement of its date is the single order
\* of its item on that date and the result has a warning for the item; so has
\* every order left without pegging record and every planned item that is no
\* node of the BOM graph.
C14_Warnings ==
    DoneOk =>
        \A i \in DOMAIN Returned.planned_orders :
            LET o == Returned.planned_orders[i]
                config == ConfigOf(o.component_id)
            IN  /\ (/\ IsSome(config.maximum_order_qty)
                    /\ o.quantity = Unwrap(config.maximum_order_qty)
                    /\ NetAt(o.component_id, o.required_date) > o.quantity)
                   => /\ Warned(o.component_id)
                      /\ PlannedAt(o.component_id, o.required_date) = o.quantity
                /\ Returned.pegging[o.id] = << >> => Warned(o.component_id)
                /\ o.component_id \notin BomNodes(bom_graph) => Warned(o.component_id)

----------------------------------------------------------------------------
\* Inventory and scheduled receipts cover the gross requirements of item
\* exactly: its projected on-hand never drops below zero and ends at zero.
ExactlyCovered(item) ==
    LET recs == net_requirements[item]
    IN  /\ recs # << >>
        /\ \A k \in DOMAIN recs : recs[k].projected_on_hand >= 0
        /\ recs[Len(recs)].projected_on_hand = 0

\* C15. Exact coverage yields no orders: an item with safety stock zero and no
\* min_qty/max_qty whose inventory and scheduled receipts cover its gross
\* requirements exactly gets no planned order, under every lot-sizing policy.
C15_ExactCoverageNoOrders ==
    \A item \in Items :
        (/\ ExactlyCovered(item)
         /\ ConfigOf(item).safety_stock = 0
         /\ ~IsSome(ConfigOf(item).minimum_order_qty)
         /\ ~IsSome(ConfigOf(item).maximum_order_qty))
        => OrdersOf(item) = << >>

\* C16. Every planned order returned by calculate has quantity > 0, for every
\* lot-sizing policy and configuration of min_qty, max_qty, multiple and
\* safety stock.
C16_PositiveQuantity ==
    DoneOk => \A i \in DOMAIN Returned.planned_orders :
                  Returned.planned_orders[i].quantity > 0

----------------------------------------------------------------------------
\* C18. Planned receipts are netted: within one item's netting run, a
\* shortage covered by the planned orders of an earlier bucket is not counted
\* again: when the orders required at bucket t-1 cover its net requirement
\* N(t-1) > 0, the net requirement N(t) of the next bucket is at most the part
\* of the gross requirement of t that the scheduled receipts of t leave open.
C18_PlannedReceiptsNetted ==
    \A item \in Items : \A k \in DOMAIN net_requirements[item] :
        LET recs == net_requirements[item]
        IN  (/\ k > 1
             /\ recs[k - 1].net_requirement > 0
             /\ PlannedAt(item, recs[k - 1].date) >= recs[k - 1].net_requirement)
            => recs[k].net_requirement
                  <= IF recs[k].gross_requirement > recs[k].scheduled_receipt
                     THEN recs[k].gross_requirement - recs[k].scheduled_receipt
                     ELSE 0

----------------------------------------------------------------------------
\* The path element that names an item.
ItemElement(item) == <<item>>

\* C17. Pegging path: every pegging record's path ends with the planned
\* order's item P; in SingleLevel mode, and in MultiLevel mode for an
\* independent demand or a Dependent demand without source_ref, the path is
\* [P]; in MultiLevel mode for a Dependent demand with source_ref, the
\* elements before P are item identifiers and the one next to P is the parent
\* item named by the source_ref.
C17_PeggingPath ==
    Done =>
        \A i \in DOMAIN Returned.planned_orders :
            LET o == Returned.planned_orders[i]
                records == Returned.pegging[o.id]
            IN  \A k \in DOMAIN records :
                    LET path == records[k].path
                        d == DemandById(demands, records[k].demand_id)
                    IN  /\ path # << >>
                        /\ path[Len(path)] = ItemElement(o.component_id)
                        /\ IF /\ pegging_mode = "MultiLevel"
                              /\ d.demand_type = "Dependent"
                              /\ IsSome(d.source_ref)
                           THEN /\ Len(path) >= 2
                                /\ \A j \in 1..(Len(path) - 1) :
                                      \E item \in Items : path[j] = ItemElement(item)
                                /\ path[Len(path) - 1]
                                      = ItemElement(Unwrap(d.source_ref)[1])
                           ELSE path = <<ItemElement(o.component_id)>>

----------------------------------------------------------------------------
\* Two items are BOM-related: one is reachable from the other.
Related(bom, i, j) == j \in Reachable(bom, {i}) \/ i \in Reachable(bom, {j})

\* The items other than item that have a demand or a supply.
OtherLoadedItems(item) ==
    (GroupedDemandKeys(demands) \cup {supplies[k].component_id : k \in DOMAIN supplies})
        \ {item}

\* The planned orders calculate_component_mrp gives for item when the demands
\* and supplies of all other items are removed from the input.
IsolatedOrders(item) ==
    LET own_demands == group_demands_by_component(demands, item)
        own_supplies == group_supplies_by_component(supplies, item)
    IN  calculate_component_mrp(item, own_demands, configs, calendar, own_supplies,
                                inventories,
                                create_time_buckets(own_demands, own_supplies,
                                                    get_max_planning_horizon(configs))).planned_orders

\* C19. Item isolation: the planned orders of an item whose only loaded
\* companions have no BOM relationship to it are the ones it gets when the
\* demands and supplies of those unrelated items are removed from the input.
C19_ItemIsolation ==
    \A item \in Items :
        (/\ item \in processed_components
         /\ IsSome(netting_inputs[item])
         /\ \A j \in OtherLoadedItems(item) : ~Related(bom_graph, item, j))
        => [k \in DOMAIN OrdersOf(item) |-> Anonymous(OrdersOf(item)[k])]
              = IsolatedOrders(item)

----------------------------------------------------------------------------
\* The items that were run through netting and lot sizing.
NettedItems == {i \in Items : IsSome(netting_inputs[i])}

\* The queue holds no item twice.
NoDuplicates(queue) == Len(queue) = Cardinality(Range(queue))

\* An item enters the queue only when it is not processed.
PushedUnprocessed ==
    \A i \in Range(components_to_process') \ Range(components_to_process) :
        i \notin processed_components

\* C20. Termination of the work queue: every call of calculate reaches its
\* return; the items run through netting and lot sizing are at most the BOM
\* nodes reachable from the items with independent demand; an item is pushed
\* to the queue only when it is neither processed nor already queued.
C20_QueueTerminates ==
    /\ [](Cardinality(NettedItems)
             <= Cardinality(Reachable(bom_graph, GroupedDemandKeys(demands))))
    /\ [](NoDuplicates(components_to_process))
    /\ [][PushedUnprocessed]_vars
    /\ ((pc = "start") ~> (pc = "done"))

\* A finished run on the cyclic BOM in which both items of the cycle were
\* netted once and the queue drained.
C20_Witness ==
    /\ Done
    /\ HasCycle(bom_graph, Items)
    /\ Cardinality(NettedItems) = 2
    /\ components_to_process = << >>

----------------------------------------------------------------------------
\* s is an initial part of t.
IsPrefix(s, t) == Len(s) <= Len(t) /\ SubSeq(t, 1, Len(s)) = s

\* One step of the while loop seen from outside: what it may change.
NoRollbackStep ==
    pc = "loop" =>
        /\ processed_components \subseteq processed_components'
        /\ Cardinality(processed_components' \ processed_components) <= 1
        /\ IsPrefix(all_planned_orders, all_planned_orders')
        /\ \A k \in (Len(all_planned_orders) + 1)..Len(all_planned_orders') :
              /\ components_to_process # << >>
              /\ all_planned_orders'[k].component_id = Head(components_to_process)
              /\ Head(components_to_process) \notin processed_components
              /\ Head(components_to_process) \in processed_components'
        /\ \A i \in Items :
              /\ IsPrefix(dependent_demands[i], dependent_demands'[i])
              /\ dependent_demands'[i] # dependent_demands[i]
                    => i # Head(components_to_process)
              /\ IsSome(netting_inputs[i]) => netting_inputs'[i] = netting_inputs[i]

\* C21. No rollback: an item is marked processed once and netted once; a step
\* of the loop leaves the planned orders collected so far in place and appends
\* only orders of the item being processed, which was not processed before; it
\* only extends the dependent demands, and only those of other items; the
\* orders returned are the ones collected.
C21_NoRollback ==
    /\ [][NoRollbackStep]_vars
    /\ [](DoneOk => Returned.planned_orders = all_planned_orders)

\* A finished run in which three items were processed one after the other,
\* each contributing orders, and an item received dependent demands from two
\* parents.
C21_Witness ==
    /\ DoneOk
    /\ processed_components = Items
    /\ \A i \in Items : OrdersOf(i) # << >>
    /\ \E i \in Items :
          Cardinality({Unwrap(dependent_demands[i][k].source_ref)[1] :
                          k \in DOMAIN dependent_demands[i]}) = 2

----------------------------------------------------------------------------
\* The time axis netting was run on for a netted item.
AxisOf(item) ==
    create_component_time_buckets(time_buckets, Unwrap(netting_inputs[item]),
                                  group_supplies_by_component(supplies, item))

\* G(t): the quantities of the item's demands dated exactly t.
G(item, t) ==
    LET ds == SelectSeq(Unwrap(netting_inputs[item]), LAMBDA d : d.required_date = t)
    IN  SumSeq([k \in DOMAIN ds |-> ds[k].quantity])

\* R(t): the quantities of the item's supplies dated exactly t.
R(item, t) ==
    LET ss == SelectSeq(supplies,
                        LAMBDA x : x.component_id = item /\ x.available_date = t)
    IN  SumSeq([k \in DOMAIN ss |-> ss[k].quantity])

\* The item was run through netting.
Netted(item) == IsSome(netting_inputs[item]) /\ item \in processed_components

\* C22. Netting recurrence: the records of a netted item are one per bucket of
\* its axis, in axis order; each carries G(t) and R(t), the sums of the
\* quantities of its demands and supplies dated exactly t, and
\* P(t) = P(t-1) + R(t) - G(t), starting from the initial inventory and
\* carrying the raw P(t-1), not lifted to the safety stock.
C22_NettingRecurrence ==
    \A item \in Items :
        (Netted(item) /\ ConfigOf(item).mrp_enabled) =>
            LET recs == net_requirements[item]
                axis == AxisOf(item)
            IN  /\ Len(recs) = Len(axis)
                /\ \A k \in DOMAIN recs :
                      /\ recs[k].date = axis[k]
                      /\ recs[k].gross_requirement = G(item, axis[k])
                      /\ recs[k].scheduled_receipt = R(item, axis[k])
                      /\ recs[k].projected_on_hand
                            = (IF k = 1 THEN InitialInventory(inventories, item)
                               ELSE recs[k - 1].projected_on_hand)
                              + R(item, axis[k]) - G(item, axis[k])

\* A netted item with on hand, whose on-hand fell below a positive safety
\* stock at one bucket and whose next bucket, with a demand and a receipt,
\* starts from that raw value.
C22_Witness ==
    \E item \in Items :
        /\ Netted(item)
        /\ InitialInventory(inventories, item) > 0
        /\ ~ConfigOf(item).allow_negative_inventory
        /\ \E k \in DOMAIN net_requirements[item] :
              LET recs == net_requirements[item]
              IN  /\ k > 1
                  /\ recs[k - 1].projected_on_hand < ConfigOf(item).safety_stock
                  /\ recs[k].gross_requirement > 0
                  /\ recs[k].scheduled_receipt > 0
                  /\ recs[k].projected_on_hand
                        = recs[k - 1].projected_on_hand + recs[k].scheduled_receipt
                          - recs[k].gross_requirement

----------------------------------------------------------------------------
Max2(a, b) == IF a >= b THEN a ELSE b

\* The net requirement of the single bucket of an item with the given on hand
\* and safety stock and one demand.
SingleBucketNet(on_hand, demand_qty, safety_stock, allow_negative_inventory) ==
    NettingCalculate(<<Demand_new(1, "A", demand_qty, 16, "SalesOrder")>>, << >>,
                     on_hand, safety_stock, <<16>>,
                     allow_negative_inventory)[1].net_requirement

\* C23. Net-requirement policy split: at every bucket of a netted item
\* N(t) = max(0, SS - P(t)) when allow_negative_inventory is false and
\* N(t) = max(0, -P(t)) when it is true, hence N(t) >= 0; on hand 30, demand
\* 100 and safety stock 10 give 80 and 70.
C23_NetRequirementSplit ==
    /\ \A item \in Items : \A k \in DOMAIN net_requirements[item] :
          LET rec == net_requirements[item][k]
              config == ConfigOf(item)
          IN  /\ rec.net_requirement
                    = IF config.allow_negative_inventory
                      THEN Max2(0, 0 - rec.projected_on_hand)
                      ELSE Max2(0, config.safety_stock - rec.projected_on_hand)
              /\ rec.net_requirement >= 0
    /\ SingleBucketNet(30, 100, 10, FALSE) = 80
    /\ SingleBucketNet(30, 100, 10, TRUE) = 70

\* An item that allows negative inventory whose on-hand is projected at or
\* above zero and below its safety stock at a bucket with demand: no net
\* requirement there, and a bucket where it is projected below zero.
C23_Witness ==
    \E item \in Items :
        /\ ConfigOf(item).allow_negative_inventory
        /\ \E k \in DOMAIN net_requirements[item] :
              LET rec == net_requirements[item][k]
              IN  /\ rec.gross_requirement > 0
                  /\ rec.projected_on_hand >= 0
                  /\ rec.projected_on_hand < ConfigOf(item).safety_stock
                  /\ rec.net_requirement = 0
        /\ \E k \in DOMAIN net_requirements[item] :
              LET rec == net_requirements[item][k]
              IN  /\ rec.projected_on_hand < 0
                  /\ rec.net_requirement = 0 - rec.projected_on_hand

----------------------------------------------------------------------------
\* The dependent demands of child that explode_bom emitted for order over edge.
EmittedFor(order, edge) ==
    SelectSeq(dependent_demands[edge[2]],
              LAMBDA d : d.source_ref = Some(<<edge[1], order.id>>))

\* C24. BOM explosion output: for each planned order O of a parent P and each
\* BOM edge (P -> C, qty_per) exactly one demand was emitted for C, of
\* quantity O.quantity * qty_per, required_date O.order_date, kind Dependent,
\* source_ref "P:O.id" and priority 5; every dependent demand comes from such
\* an order and edge, so none is emitted for an item without orders, absent
\* from the BOM graph or without children; and no run fails.
C24_ExplosionOutput ==
    /\ \A i \in DOMAIN all_planned_orders : \A e \in bom_graph :
          LET o == all_planned_orders[i]
          IN  e[1] = o.component_id =>
                  /\ Len(EmittedFor(o, e)) = 1
                  /\ LET d == EmittedFor(o, e)[1]
                     IN  /\ d.component_id = e[2]
                         /\ d.quantity = o.quantity * e[3]
                         /\ d.required_date = o.order_date
                         /\ d.demand_type = "Dependent"
                         /\ d.priority = 5
    /\ \A c \in Items : \A k \in DOMAIN dependent_demands[c] :
          \E i \in DOMAIN all_planned_orders : \E e \in bom_graph :
              /\ e[1] = all_planned_orders[i].component_id
              /\ e[2] = c
              /\ dependent_demands[c][k].source_ref
                    = Some(<<e[1], all_planned_orders[i].id>>)
    /\ Done => Returned.status = "Ok"

\* A finished run in which a parent with two children had an order placed
\* before its required date, both children received its dependent demand, and
\* a childless item was planned as well.
C24_Witness ==
    /\ DoneOk
    /\ \E i \in DOMAIN all_planned_orders :
          LET o == all_planned_orders[i]
          IN  /\ o.order_date < o.required_date
              /\ Cardinality({e \in bom_graph : e[1] = o.component_id}) = 2
              /\ \A e \in bom_graph :
                    e[1] = o.component_id => Len(EmittedFor(o, e)) = 1
    /\ \E i \in DOMAIN all_planned_orders :
          \A e \in bom_graph : e[1] # all_planned_orders[i].component_id

----------------------------------------------------------------------------
\* normalize(q): the quantity constraints applied to q.
normalize(config, q) == adjust_order_quantity(config, q)

\* The quantities emitted at one bucket while the running inventory r is
\* below the safety stock, each one added to r.
RECURSIVE FoqTopUp(_, _, _)
FoqTopUp(r, lot, config) ==
    IF r >= config.safety_stock THEN << >>
    ELSE LET q == normalize(config, CeilDiv(config.safety_stock - r, lot) * lot)
         IN  <<q>> \o FoqTopUp(r + q, lot, config)

\* The orders, as <<required_date, quantity>>, of the walk over the buckets
\* entered with the running inventory r.
RECURSIVE FoqWalk(_, _, _, _)
FoqWalk(reqs, r, lot, config) ==
    IF reqs = << >> THEN << >>
    ELSE LET req == Head(reqs)
             r1 == r - req.gross_requirement + req.scheduled_receipt
             emitted == FoqTopUp(r1, lot, config)
         IN  [k \in DOMAIN emitted |-> <<req.date, emitted[k]>>]
             \o FoqWalk(Tail(reqs), r1 + SumSeq(emitted), lot, config)

\* The running inventory after the last bucket of reqs, counting the orders
\* an item received: the receipts and orders less the gross requirements.
RunningAfter(item, k) ==
    LET recs == net_requirements[item]
    IN  SumSeq([j \in 1..k |-> recs[j].scheduled_receipt - recs[j].gross_requirement
                                 + PlannedAt(item, recs[j].date)])

\* The item was planned under FixedOrderQuantity with a lot size.
PlannedFoq(item) ==
    /\ Netted(item)
    /\ ConfigOf(item).lot_sizing_rule = "FixedOrderQuantity"
    /\ IsSome(ConfigOf(item).fixed_lot_size)

\* The orders of test_fixed_order_quantity: one demand of 150, lot 100, no inventory.
FoqExample ==
    fixed_order_quantity(
        "Y",
        NettingCalculate(<<Demand_new(1, "Y", 150, 16, "SalesOrder")>>, << >>, 0, 0,
                         <<16>>, FALSE),
        [MrpConfig_new(0, "Buy") EXCEPT !.lot_sizing_rule = "FixedOrderQuantity",
                                        !.fixed_lot_size = Some(100)],
        new_24_7)

\* C25. FixedOrderQuantity: the orders of an item are those of the walk over
\* its buckets with a running inventory r (r <- r - G(t) + R(t)) that, while
\* r < SS, emits normalize(ceil((SS - r) / fixed_lot) * fixed_lot) dated at the
\* bucket and adds it to r; after every bucket r >= SS; a demand of 150 with
\* lot 100 and no inventory yields one order of 200.
C25_FixedOrderQuantity ==
    /\ \A item \in Items :
          PlannedFoq(item) =>
              /\ [k \in DOMAIN OrdersOf(item) |->
                     <<OrdersOf(item)[k].required_date, OrdersOf(item)[k].quantity>>]
                    = FoqWalk(net_requirements[item], 0,
                              Unwrap(ConfigOf(item).fixed_lot_size), ConfigOf(item))
              /\ \A k \in DOMAIN net_requirements[item] :
                    RunningAfter(item, k) >= ConfigOf(item).safety_stock
    /\ Len(FoqExample) = 1
    /\ FoqExample[1].quantity = 200

----------------------------------------------------------------------------
\* The index of the first bucket of the window that bucket k belongs to: a
\* bucket opens a window when it is dated 7 days or more after the first
\* bucket of the current one.
RECURSIVE WindowStart(_, _)
WindowStart(recs, k) ==
    IF k = 1 THEN 1
    ELSE LET w == WindowStart(recs, k - 1)
         IN  IF recs[k].date - recs[w].date < period_days THEN w ELSE k

\* The sum of N(t) over the window that starts at bucket w.
WindowTotal(recs, w) ==
    SumSeq([k \in DOMAIN recs |->
               IF WindowStart(recs, k) = w THEN recs[k].net_requirement ELSE 0])

\* The item was planned under PeriodOrderQuantity.
PlannedPoq(item) ==
    Netted(item) /\ ConfigOf(item).lot_sizing_rule = "PeriodOrderQuantity"

\* A net-requirement record as test_period_order_quantity builds it.
PoqRecord(date, net_req) == NetRequirement(date, 0, 0, 0, net_req)

\* The orders of test_period_order_quantity: 50 on 11-01, 30 on 11-03, 40 on
\* 11-10 (day numbers 1, 3, 10).
PoqExample ==
    period_order_quantity(
        "TEST-003",
        <<PoqRecord(1, 50), PoqRecord(3, 30), PoqRecord(10, 40)>>,
        [MrpConfig_new(0, "Make") EXCEPT !.lot_sizing_rule = "PeriodOrderQuantity"],
        new_24_7)

\* C26. PeriodOrderQuantity windows: the buckets of an item are split into
\* consecutive windows, each made of the buckets dated less than 7 days after
\* its first bucket; every window whose summed N(t) is positive has exactly
\* one order, of quantity normalize(sum) and required on the window's first
\* bucket; a window without net requirement has none and no order is
\* required on another date; 50 on 11-01, 30 on 11-03 and 40 on 11-10 give
\* orders of 80 and 40.
C26_PeriodWindows ==
    /\ \A item \in Items :
          PlannedPoq(item) =>
              LET recs == net_requirements[item]
                  starts == {WindowStart(recs, k) : k \in DOMAIN recs}
                  orders == OrdersOf(item)
              IN  /\ \A w \in starts :
                        LET placed == SelectSeq(orders,
                                                LAMBDA o : o.required_date = recs[w].date)
                        IN  IF WindowTotal(recs, w) > 0
                            THEN /\ Len(placed) = 1
                                 /\ placed[1].quantity
                                       = normalize(ConfigOf(item), WindowTotal(recs, w))
                            ELSE placed = << >>
                  /\ \A i \in DOMAIN orders :
                        \E w \in starts : orders[i].required_date = recs[w].date
    /\ [k \in DOMAIN PoqExample |-> <<PoqExample[k].required_date, PoqExample[k].quantity>>]
          = << <<1, 80>>, <<10, 40>> >>

\* An item planned under PeriodOrderQuantity with three buckets: the first
\* two in one window, the third, 7 days after the first and less than 7 days
\* after the second, in a window of its own; one order for each window.
C26_Witness ==
    \E item \in Items :
        /\ PlannedPoq(item)
        /\ Len(net_requirements[item]) = 3
        /\ WindowStart(net_requirements[item], 2) = 1
        /\ WindowStart(net_requirements[item], 3) = 3
        /\ net_requirements[item][3].date - net_requirements[item][2].date < period_days
        /\ net_requirements[item][2].net_requirement > 0
        /\ Len(OrdersOf(item)) = 2

----------------------------------------------------------------------------
\* min_level = min_qty ?: SS.
MinLevel(config) ==
    IF IsSome(config.minimum_order_qty) THEN Unwrap(config.minimum_order_qty)
    ELSE config.safety_stock

\* max_level = max_qty ?: 2 * min_level.
MaxLevel(config) ==
    IF IsSome(config.maximum_order_qty) THEN Unwrap(config.maximum_order_qty)
    ELSE 2 * MinLevel(config)

\* The running inventory r of item at bucket k, before an order is emitted
\* there: the receipts less the gross requirements up to k, plus the orders
\* required at the earlier buckets. The walk starts from zero.
RunningAt(item, k) ==
    LET recs == net_requirements[item]
    IN  SumSeq([j \in 1..k |-> recs[j].scheduled_receipt - recs[j].gross_requirement])
        + SumSeq([j \in 1..(k - 1) |-> PlannedAt(item, recs[j].date)])

\* The item was planned under MinMax.
PlannedMinMax(item) ==
    Netted(item) /\ ConfigOf(item).lot_sizing_rule = "MinMax"

----------------------------------------------------------------------------
\* The dates of the initial global axis: those of all independent demands and
\* of all supplies.
GlobalDates ==
    {demands[i].required_date : i \in DOMAIN demands}
        \cup {supplies[i].available_date : i \in DOMAIN supplies}

\* The dates of the demands handed to the item's netting (independent and
\* dependent) and of the item's supplies.
OwnDates(item) ==
    {Unwrap(netting_inputs[item])[k].required_date : k \in DOMAIN Unwrap(netting_inputs[item])}
        \cup {supplies[k].available_date :
                 k \in {j \in DOMAIN supplies : supplies[j].component_id = item}}

\* The dates of the buckets netting was run on for item, in order.
BucketDates(item) == [k \in DOMAIN net_requirements[item] |-> net_requirements[item][k].date]

\* C28. Per-item time axis: the axis built for an item is strictly increasing,
\* without duplicate, and its dates are exactly those of the initial global
\* axis (all independent demand and supply dates) together with the
\* required_dates of the item's demands, independent and dependent, and the
\* available_dates of its supplies; the global axis holds exactly the demand
\* and supply dates, whatever planning_horizon_days.
C28_ItemAxis ==
    /\ pc # "start" =>
          /\ Range(time_buckets) = GlobalDates
          /\ \A k \in 2..Len(time_buckets) : time_buckets[k - 1] < time_buckets[k]
    /\ \A item \in Items :
          (Netted(item) /\ ConfigOf(item).mrp_enabled) =>
              LET axis == BucketDates(item)
              IN  /\ \A k \in 2..Len(axis) : axis[k - 1] < axis[k]
                  /\ Range(axis) = GlobalDates \cup OwnDates(item)

\* A netted item whose axis holds a date of a dependent demand that is not on
\* the global axis besides two dates of the global axis, with a planning
\* horizon that ends between the first and the last date on a day without
\* bucket.
C28_Witness ==
    \E item \in Items :
        /\ Netted(item)
        /\ \E k \in DOMAIN BucketDates(item) : BucketDates(item)[k] \notin GlobalDates
        /\ Cardinality(GlobalDates) = 2
        /\ Len(BucketDates(item)) = 3
        /\ ConfigOf(item).planning_horizon_days = 2
        /\ BucketDates(item)[1] + 2 < BucketDates(item)[3]
        /\ BucketDates(item)[1] + 2 \notin Range(BucketDates(item))

----------------------------------------------------------------------------
\* The last call was of the method op.
Called(op) == last_call # None /\ last_call.op = op

\* The number of working days among the dates first..last.
WorkingDaysIn(cal, first, last) ==
    Cardinality({x \in first..last : is_working_day(cal, x)})

\* C29. Working-day arithmetic: add_working_days(d, n) returns d when n = 0
\* and otherwise the n-th working day strictly after d, so that
\* working_days_between(d, add_working_days(d, n)) = n, the working days
\* being counted in (d, result]; subtract_working_days(d, n) returns d when
\* n = 0 and otherwise the n-th working day strictly before d.
C29_WorkingDayArithmetic ==
    /\ Called("add_working_days") =>
          LET d == last_call.start_date
              n == last_call.days
              r == last_call.value
          IN  /\ n = 0 => r = d
              /\ n > 0 => /\ r > d
                          /\ is_working_day(calendar, r)
                          /\ WorkingDaysIn(calendar, d + 1, r) = n
              /\ working_days_between(calendar, d, r) = n
    /\ Called("subtract_working_days") =>
          LET d == last_call.start_date
              n == last_call.days
              r == last_call.value
          IN  /\ n = 0 => r = d
              /\ n > 0 => /\ r < d
                          /\ is_working_day(calendar, r)
                          /\ WorkingDaysIn(calendar, r, d - 1) = n
    /\ Called("working_days_between") =>
          last_call.value
              = WorkingDaysIn(calendar, last_call.start_date + 1,
                              last_call.start_date + last_call.days)

\* add_working_days called with n = 3 from a non-working day on a calendar
\* with holidays, returning a day more than a week later.
C29_Witness ==
    /\ Called("add_working_days")
    /\ calendar.holidays # {}
    /\ ~is_working_day(calendar, last_call.start_date)
    /\ last_call.days = 3
    /\ last_call.value > last_call.start_date + 7

----------------------------------------------------------------------------
\* C30. Inventory allocation: after any sequence of allocate and deallocate
\* calls with non-negative quantities on an Inventory built by new,
\* available_qty = on_hand_qty - allocated_qty and
\* 0 <= allocated_qty <= on_hand_qty; allocate of more than available_qty and
\* deallocate of more than allocated_qty return an error and leave
\* on_hand_qty, allocated_qty and available_qty unchanged.
C30_InventoryAllocation ==
    IsSome(inventory) =>
        LET inv == Unwrap(inventory)
        IN  /\ inv.available_qty = inv.on_hand_qty - inv.allocated_qty
            /\ 0 <= inv.allocated_qty
            /\ inv.allocated_qty <= inv.on_hand_qty
            /\ (Called("allocate") /\ last_call.quantity > last_call.before.available_qty)
                   => /\ last_call.value = "Err"
                      /\ inv.on_hand_qty = last_call.before.on_hand_qty
                      /\ inv.allocated_qty = last_call.before.allocated_qty
                      /\ inv.available_qty = last_call.before.available_qty
            /\ (Called("deallocate") /\ last_call.quantity > last_call.before.allocated_qty)
                   => /\ last_call.value = "Err"
                      /\ inv.on_hand_qty = last_call.before.on_hand_qty
                      /\ inv.allocated_qty = last_call.before.allocated_qty
                      /\ inv.available_qty = last_call.before.available_qty

\* An allocate refused on an Inventory part of which is allocated, for a
\* quantity above what is available and within what is on hand.
C30_Witness ==
    /\ IsSome(inventory)
    /\ Called("allocate")
    /\ last_call.value = "Err"
    /\ last_call.before.allocated_qty > 0
    /\ last_call.quantity > last_call.before.available_qty
    /\ last_call.quantity <= last_call.before.on_hand_qty
    /\ Unwrap(inventory) = last_call.before

====
